---- MODULE Spec2Model ----
(***************************************************************************)
(* Job orchestration and status persistence of the Terraform provisioner:  *)
(* backend/app/jobs/jobs.py, backend/app/services/db_utils.py and          *)
(* backend/app/services/terraform_utils.py.                                *)
(*                                                                         *)
(* Texts are sequences of pieces (a piece is a TLA+ string), so that       *)
(* formatting (f-strings, "\n".join) is concatenation and not the          *)
(* identity.  An optional value is <<>> (None) or <<v>>.                   *)
(***************************************************************************)
EXTENDS Integers, Sequences, FiniteSets, TLC

\* ------------------------------------------------------------------ bounds
MaxFaults == 1
MaxCalls == 3
MaxDeviceLen == 2
MaxNormCalls == 2

\* --------------------------------------------------------------- constants
HashModulus == 100000000


None == <<>>
Some(v) == <<v>>

\* The sync-adapter calls in flight, each on a worker process of its own.
Jobs == {"j1", "j2"}

\* The user on whose behalf each call was enqueued.
Owner(j) == IF j = "j1" THEN "alice" ELSE "bob"

\* ------------------------------------------------------------ input domains
\* A device id is a string, modelled as its sequence of characters.
DeviceIds == {<<"7">>, <<"w">>}
InstanceNames == {"web1"}
Users == {"alice", "bob"}
Kinds == {"create", "destroy"}
\* hash() of a str is salted per interpreter start: what hash(device_id) is for a
\* non-numeric device id in the process of each worker.
ProcessHash(j) == IF j = "j1" THEN -100000007 ELSE 9

\* ------------------------------------------------- jobs.py: normalize_request_id
DigitChars == {"0", "1", "2", "3", "4", "5", "6", "7", "8", "9"}

DigitVal(c) ==
    CASE c = "0" -> 0 [] c = "1" -> 1 [] c = "2" -> 2 [] c = "3" -> 3
      [] c = "4" -> 4 [] c = "5" -> 5 [] c = "6" -> 6 [] c = "7" -> 7
      [] c = "8" -> 8 [] c = "9" -> 9

RECURSIVE DigitsValue(_)
DigitsValue(s) ==
    IF s = <<>> THEN 0
    ELSE 10 * DigitsValue(SubSeq(s, 1, Len(s) - 1)) + DigitVal(s[Len(s)])

IsDigits(s) == Len(s) > 0 /\ \A i \in 1..Len(s) : s[i] \in DigitChars

HasSign(s) == Len(s) > 0 /\ s[1] \in {"-", "+"}

\* int(device_id) succeeds: an optional sign followed by decimal digits.
ParsesAsInt(s) == IF HasSign(s) THEN IsDigits(Tail(s)) ELSE IsDigits(s)

IntOf(s) ==
    IF HasSign(s)
    THEN (IF s[1] = "-" THEN 0 - DigitsValue(Tail(s)) ELSE DigitsValue(Tail(s)))
    ELSE DigitsValue(s)

Abs(n) == IF n < 0 THEN 0 - n ELSE n

normalize_request_id(device_id, h) ==
    IF ParsesAsInt(device_id) THEN IntOf(device_id)
    ELSE Abs(h) % HashModulus

\* ------------------------------------------------------------ str(request_id)
DigitChar(d) ==
    CASE d = 0 -> "0" [] d = 1 -> "1" [] d = 2 -> "2" [] d = 3 -> "3"
      [] d = 4 -> "4" [] d = 5 -> "5" [] d = 6 -> "6" [] d = 7 -> "7"
      [] d = 8 -> "8" [] d = 9 -> "9"

RECURSIVE NatToStr(_)
NatToStr(n) ==
    IF n < 10 THEN <<DigitChar(n)>>
    ELSE NatToStr(n \div 10) \o <<DigitChar(n % 10)>>

IntToStr(n) == IF n < 0 THEN <<"-">> \o NatToStr(0 - n) ELSE NatToStr(n)

\* -------------------------------------------------------- db_utils.py: cache
CacheKey(job_id) == <<"job:">> \o job_id

cache_set(c, job_id, status) ==
    [k \in DOMAIN c \cup {CacheKey(job_id)} |->
        IF k = CacheKey(job_id) THEN status ELSE c[k]]

get_cached(c, job_id) ==
    IF CacheKey(job_id) \in DOMAIN c THEN Some(c[CacheKey(job_id)]) ELSE None

\* ------------------------------------------------ db_utils.py: log_request
RowsOf(L, request_id) == {r \in L : r.request_id = request_id}

\* existing.scalar(): the log_id of the first row of the result, None when the
\* result is empty.  The query has no ORDER BY: any matching row may be first.
ScalarResults(L, request_id) ==
    IF RowsOf(L, request_id) = {} THEN {None}
    ELSE {Some(r.log_id) : r \in RowsOf(L, request_id)}

\* `if log_id:`
Truthy(log_id) == log_id # None /\ log_id[1] # 0

\* Mutant of UpdateRow: the UPDATE also carries the INSERT's created_at value.
UpdateRowTouchesCreatedAt(L, log_id, w, now) ==
    {IF r.log_id = log_id
     THEN [r EXCEPT !.status = w.status,
                    !.duration_seconds = w.duration,
                    !.error_message = w.error,
                    !.created_at = now,
                    !.updated_at = now]
     ELSE r : r \in L}

UpdateRow(L, log_id, w, now) ==
    {IF r.log_id = log_id
     THEN [r EXCEPT !.status = w.status,
                    !.duration_seconds = w.duration,
                    !.error_message = w.error,
                    !.updated_at = now]
     ELSE r : r \in L}

InsertRow(L, new_id, request_id, user_id, w, now) ==
    L \cup {[log_id |-> new_id, request_id |-> request_id, user_id |-> user_id,
             status |-> w.status, duration_seconds |-> w.duration,
             error_message |-> w.error, created_at |-> now, updated_at |-> now]}

\* Mutant of Upsert: the row found by the SELECT is ignored.
UpsertInsertOnly(L, next_id, sel, request_id, user_id, w, now) ==
    [logs |-> InsertRow(L, next_id, request_id, user_id, w, now),
     next |-> next_id + 1, log_id |-> Some(next_id)]

\* The write half of log_request, given what the SELECT returned.
Upsert(L, next_id, sel, request_id, user_id, w, now) ==
    IF Truthy(sel)
    THEN [logs |-> UpdateRow(L, sel[1], w, now), next |-> next_id, log_id |-> sel]
    ELSE [logs |-> InsertRow(L, next_id, request_id, user_id, w, now),
          next |-> next_id + 1, log_id |-> Some(next_id)]

\* ----------------------------------------------- db_utils.py: log_resource
\* request_resources.log_id is a foreign key: the insert fails without a parent.
ParentExists(L, log_id) == log_id # None /\ \E r \in L : r.log_id = log_id[1]

\* Mutant of InsertResource: the new row's own key is stored as the parent key.
InsertResourceWrongParent(R, new_id, log_id, resource_type, resource_name, value, now) ==
    R \cup {[resource_id |-> new_id, log_id |-> new_id + 1,
             resource_type |-> resource_type, resource_name |-> resource_name,
             resource_id_value |-> value, created_at |-> now]}

InsertResource(R, new_id, log_id, resource_type, resource_name, value, now) ==
    R \cup {[resource_id |-> new_id, log_id |-> log_id[1],
             resource_type |-> resource_type, resource_name |-> resource_name,
             resource_id_value |-> value, created_at |-> now]}

\* ------------------------------------- terraform_utils.py: the two pipelines
GeneratedFiles == <<"main.tf", "variables.tf", "outputs.tf", "provider.tf">>

FilesWritten(k) == {GeneratedFiles[i] : i \in 1..k}

\* Mutant of BuiltWorkspace: the last entry is missing from the files dict.
BuiltWorkspaceThreeFiles == Some(FilesWritten(3))

\* generate_root_terraform_files returning normally: rmtree, makedirs, four files.
BuiltWorkspace == Some(FilesWritten(Len(GeneratedFiles)))

\* What a failing build may leave: rmtree failed (unchanged), makedirs failed
\* (no directory), or the write of a file failed (the files written before it,
\* here the first two).
BuildLeftovers(dir) == {dir, None, Some(FilesWritten(2))}

\* What a step wrote to a stream, as one piece of text.
StdOut(cmd) == <<[stdout |-> cmd]>>
StdErr(cmd) == <<[stderr |-> cmd]>>

\* "\n".join(logs)
RECURSIVE Join(_)
Join(texts) ==
    IF texts = <<>> THEN <<>>
    ELSE IF Len(texts) = 1 THEN texts[1]
    ELSE texts[1] \o <<"\n">> \o Join(Tail(texts))

ExitCodes == {0, 1}

\* Wall-clock seconds one external step may take.
StepSeconds == {1}

\* ------------------------------------------------------- jobs.py: the flows
StartedStatus(kind) == IF kind = "create" THEN "create_started" ELSE "destroy_started"

TerminalStatusAlwaysOk(kind, success) ==
    IF kind = "create" THEN "success" ELSE "destroyed"

TerminalStatus(kind, success) ==
    IF kind = "create" THEN (IF success THEN "success" ELSE "failed")
    ELSE (IF success THEN "destroyed" ELSE "destroy_failed")

ErrorStatus(kind) == IF kind = "create" THEN "error" ELSE "destroy_error"

ErrorText(kind, msg) ==
    (IF kind = "create" THEN <<"Unhandled error: ">> ELSE <<"Destroy crashed: ">>) \o msg

\* The places of a flow where a collaborator may raise.
Places == {"started", "build", "pipeline", "terminal", "resource", "error"}

\* Mutants of InTry: the try block opened or closed at another line.
InTryFromStart(where) == where \in {"started", "build", "pipeline", "terminal", "resource"}
InTryWithoutTerminal(where) == where \in {"build", "pipeline", "resource"}
InTryWithoutResource(where) == where \in {"build", "pipeline", "terminal"}

\* The try block of a flow: everything between the started write and the handler.
InTry(where) == where \in {"build", "pipeline", "terminal", "resource"}

WriteArgs(status, duration, error) ==
    [status |-> status, duration |-> duration, error |-> error]

\* Mutant of TerminalArgs: the combined log is recorded on success too.
TerminalArgsAlwaysLog(kind, pipe) ==
    WriteArgs(TerminalStatus(kind, pipe.success), Some(pipe.duration), Some(pipe.output))

TerminalArgs(kind, pipe) ==
    WriteArgs(TerminalStatus(kind, pipe.success), Some(pipe.duration),
              IF pipe.success THEN None ELSE Some(pipe.output))

JobResult(success, output, duration) ==
    [success |-> success, output |-> output, duration |-> duration]

DbErrors == {[type |-> "RuntimeError", msg |-> <<"db">>],
             [type |-> "DBAPIError", msg |-> <<"db">>]}
OsError == [type |-> "OSError", msg |-> <<"os">>]
IntegrityError == [type |-> "IntegrityError", msg |-> <<"fk">>]

VARIABLES
    logs,        \* table request_status_logs
    resources,   \* table request_resources
    nextLogId,   \* autoincrement of request_status_logs.log_id
    nextResId,   \* autoincrement of request_resources.resource_id
    cache,       \* redis: key -> status
    workspace,   \* TERRAFORM_ROOT: device id -> None | Some(set of file names)
    clock,       \* datetime.utcnow()
    faults,      \* failures of collaborators so far
    job,         \* per sync-adapter call: position, arguments, locals, trace
    calls        \* SpecStore: the API calls made so far, latest last

vars == <<logs, resources, nextLogId, nextResId, cache, workspace, clock, faults, job, calls>>

IdleJob ==
    [pc |-> "idle", kind |-> "create", device_id |-> <<>>, instance_name |-> "",
     user |-> "", hash |-> 0, attempt |-> 0, request_id |-> 0, log_id |-> None,
     site |-> "", sel |-> None, ret |-> None, w |-> WriteArgs("", None, None),
     elapsed |-> 0, duration |-> 0, tlogs |-> <<>>, pipe |-> None, exc |-> None, result |-> None,
     \* trace of the current flow invocation
     tried |-> <<>>, wrote |-> <<>>, steps |-> <<>>, built |-> FALSE,
     inserted |-> 0, caught |-> <<>>, escapedAt |-> ""]

\* Mutant of FlowEntry: the flow starts its work without the started write.
FlowEntryNoStartedWrite(r) ==
    [IdleJob EXCEPT
        !.pc = (IF r.kind = "create" THEN "build" ELSE "destroy"),
        !.kind = r.kind, !.device_id = r.device_id,
        !.instance_name = r.instance_name, !.user = r.user, !.hash = r.hash,
        !.attempt = r.attempt,
        !.request_id = normalize_request_id(r.device_id, r.hash),
        !.site = "started"]

\* Entry of create_server_job / destroy_server_job up to the first log_request.
FlowEntry(r) ==
    [IdleJob EXCEPT
        !.pc = "select", !.kind = r.kind, !.device_id = r.device_id,
        !.instance_name = r.instance_name, !.user = r.user, !.hash = r.hash,
        !.attempt = r.attempt,
        !.request_id = normalize_request_id(r.device_id, r.hash),
        !.site = "started",
        !.w = WriteArgs(StartedStatus(r.kind), None, None),
        !.tried = <<StartedStatus(r.kind)>>]

\* An exception raised at `where`: inside the try block the handler converts it
\* into the error write; outside it leaves the flow.
Throw(r, where, e) ==
    IF InTry(where)
    THEN [r EXCEPT !.pc = "select", !.site = "error", !.sel = None,
                   !.w = WriteArgs(ErrorStatus(r.kind), None,
                                   Some(ErrorText(r.kind, e.msg))),
                   !.tried = Append(@, ErrorStatus(r.kind)),
                   !.caught = Append(@, [where |-> where, msg |-> e.msg])]
    ELSE [r EXCEPT !.pc = "escaped", !.exc = Some(e), !.escapedAt = where,
                   !.sel = None]

Return(r, res) == [r EXCEPT !.pc = "done", !.result = Some(res)]

CallLogRequest(r, site, w) ==
    [r EXCEPT !.pc = "select", !.site = site, !.w = w, !.tried = Append(@, w.status)]

\* The pipeline returned (success, output, duration): the terminal write is next.
PipelineReturns(r, success, texts, duration) ==
    LET pipe == [success |-> success, output |-> Join(texts), duration |-> duration]
    IN  CallLogRequest([r EXCEPT !.pipe = Some(pipe), !.tlogs = <<>>, !.elapsed = 0,
                                 !.duration = 0],
                       "terminal", TerminalArgs(r.kind, pipe))

\* Mutant of AfterLogRequest: the resource insert is not guarded by `if success`.
AfterLogRequestUnguarded(r) ==
    CASE r.site = "started" ->
            [r EXCEPT !.log_id = (IF r.kind = "create" THEN r.ret ELSE None),
                      !.pc = (IF r.kind = "create" THEN "build" ELSE "destroy")]
      [] r.site = "terminal" ->
            IF r.kind = "create"
            THEN [r EXCEPT !.pc = "resource"]
            ELSE Return(r, JobResult(r.pipe[1].success, r.pipe[1].output,
                                     r.pipe[1].duration))
      [] r.site = "error" ->
            Return(r, JobResult(FALSE, r.w.error[1], 0))

\* Mutant of AfterLogRequest: the destroy flow keeps the record key and logs a
\* resource after a successful pipeline, as the create flow does.
AfterLogRequestDestroyLogsResource(r) ==
    CASE r.site = "started" ->
            [r EXCEPT !.log_id = r.ret,
                      !.pc = (IF r.kind = "create" THEN "build" ELSE "destroy")]
      [] r.site = "terminal" ->
            IF r.pipe[1].success
            THEN [r EXCEPT !.pc = "resource"]
            ELSE Return(r, JobResult(r.pipe[1].success, r.pipe[1].output,
                                     r.pipe[1].duration))
      [] r.site = "error" ->
            Return(r, JobResult(FALSE, r.w.error[1], 0))

\* What follows a log_request that returned.
AfterLogRequest(r) ==
    CASE r.site = "started" ->
            [r EXCEPT !.log_id = (IF r.kind = "create" THEN r.ret ELSE None),
                      !.pc = (IF r.kind = "create" THEN "build" ELSE "destroy")]
      [] r.site = "terminal" ->
            IF r.kind = "create" /\ r.pipe[1].success
            THEN [r EXCEPT !.pc = "resource"]
            ELSE Return(r, JobResult(r.pipe[1].success, r.pipe[1].output,
                                     r.pipe[1].duration))
      [] r.site = "error" ->
            Return(r, JobResult(FALSE, r.w.error[1], 0))

Init ==
    /\ logs = {}
    /\ resources = {}
    /\ nextLogId = 1
    /\ nextResId = 1
    /\ cache = <<>>
    /\ workspace = [d \in DeviceIds |-> None]
    /\ clock = 0
    /\ faults = 0
    /\ job = [j \in Jobs |-> IdleJob]
    /\ calls = <<>>

CanFault == faults < MaxFaults

Tick == clock' = clock + 1

NoTick == UNCHANGED clock

SetJob(j, r) == job' = [job EXCEPT ![j] = r]

\* create_server_job_sync / destroy_server_job_sync called by a worker.
Start(j) ==
    /\ job[j].pc = "idle"
    /\ \E kind \in Kinds, d \in DeviceIds, n \in InstanceNames :
            SetJob(j, FlowEntry([IdleJob EXCEPT !.kind = kind, !.device_id = d,
                                                !.instance_name = n, !.user = Owner(j),
                                                !.hash = ProcessHash(j), !.attempt = 1]))
    /\ NoTick
    /\ UNCHANGED <<logs, resources, nextLogId, nextResId, cache, workspace, faults, calls>>

\* log_request: the SELECT inside the transaction.  (A SELECT that raises leaves
\* the same state as a write that raises: LRWrite covers both.)
LRSelect(j) ==
    /\ job[j].pc = "select"
    /\ \E s \in ScalarResults(logs, job[j].request_id) :
          SetJob(j, [job[j] EXCEPT !.pc = "write", !.sel = s])
    /\ NoTick
    /\ UNCHANGED <<logs, resources, nextLogId, nextResId, cache, workspace, faults, calls>>

\* log_request: UPDATE or INSERT, and the commit at the end of session.begin().
LRWrite(j) ==
    /\ job[j].pc = "write"
    /\ \/ LET r == job[j]
              u == Upsert(logs, nextLogId, r.sel, r.request_id, r.user, r.w, clock)
          IN  /\ logs' = u.logs
              /\ nextLogId' = u.next
              /\ SetJob(j, [r EXCEPT !.pc = "cache", !.ret = u.log_id,
                                     !.wrote = Append(@, r.w)])
              /\ UNCHANGED faults
       \/ /\ CanFault
          /\ \E e \in DbErrors : SetJob(j, Throw(job[j], job[j].site, e))
          /\ faults' = faults + 1
          /\ UNCHANGED <<logs, nextLogId>>
    /\ NoTick
    /\ UNCHANGED <<resources, nextResId, cache, workspace, calls>>

\* log_request: cache_job_status after the commit, then return log_id.  (Redis
\* is up here; StoreLogRequest has the cache write that fails.)
LRCache(j) ==
    /\ job[j].pc = "cache"
    /\ cache' = cache_set(cache, IntToStr(job[j].request_id), job[j].w.status)
    /\ SetJob(j, AfterLogRequest(job[j]))
    /\ NoTick
    /\ UNCHANGED <<logs, resources, nextLogId, nextResId, workspace, faults, calls>>

\* _run_cmd: create_subprocess_exec needs the working directory to exist.
DirExists(j) == workspace[job[j].device_id] # None

\* A step that ran to completion: logs += [out, err].
Ran(r, cmd, ret, secs) ==
    [r EXCEPT !.steps = Append(@, [cmd |-> cmd, ret |-> ret, secs |-> secs]),
              !.tlogs = @ \o <<StdOut(cmd), StdErr(cmd)>>,
              !.elapsed = @ + secs]

\* A step that could not be spawned or awaited: _run_cmd raises.
Crashed(r, cmd) == [r EXCEPT !.steps = Append(@, [cmd |-> cmd, ret |-> -1, secs |-> 0])]

\* Entry of run_terraform_commands / destroy_terraform_resources.
PipelineEntry(r) == [r EXCEPT !.elapsed = 0, !.tlogs = <<>>]

\* Mutant of AfterInit: apply runs whatever init returned.
AfterInitNoShortCircuit(r, ret) == [r EXCEPT !.pc = "apply"]

\* run_terraform_commands after init: `if ret != 0: return False, ...`.
AfterInit(r, ret) ==
    IF ret # 0 THEN PipelineReturns(r, FALSE, r.tlogs, r.elapsed)
    ELSE [r EXCEPT !.pc = "apply"]

\* run_terraform_commands after apply: duration is taken, then `if ret != 0`.
AfterApply(r, ret) ==
    IF ret # 0 THEN PipelineReturns(r, FALSE, r.tlogs, r.elapsed)
    ELSE [r EXCEPT !.pc = "output", !.duration = r.elapsed]

\* Mutant of AfterOutput: the output step's exit decides the pipeline's result.
AfterOutputChecked(r) ==
    PipelineReturns(r, r.steps[Len(r.steps)].ret = 0, r.tlogs, r.duration)

\* run_terraform_commands after the best-effort output step, however it ended.
AfterOutput(r) == PipelineReturns(r, TRUE, r.tlogs, r.duration)

\* Mutant of AfterDestroy: the exit code of the destroy step is not looked at.
AfterDestroyIgnoresExit(r, ret) == PipelineReturns(r, TRUE, r.tlogs, r.elapsed)

\* destroy_terraform_resources: return (ret == 0), "\n".join(logs), duration.
AfterDestroy(r, ret) == PipelineReturns(r, ret = 0, r.tlogs, r.elapsed)

\* create flow, step 1: generate_root_terraform_files.
Build(j) ==
    /\ job[j].pc = "build"
    /\ \/ /\ workspace' = [workspace EXCEPT ![job[j].device_id] = BuiltWorkspace]
          /\ SetJob(j, [job[j] EXCEPT !.pc = "init", !.built = TRUE])
          /\ UNCHANGED faults
       \/ /\ CanFault
          /\ \E left \in BuildLeftovers(workspace[job[j].device_id]) :
               workspace' = [workspace EXCEPT ![job[j].device_id] = left]
          /\ SetJob(j, Throw([job[j] EXCEPT !.built = TRUE], "build", OsError))
          /\ faults' = faults + 1
    /\ NoTick
    /\ UNCHANGED <<logs, resources, nextLogId, nextResId, cache, calls>>

\* run_terraform_commands: terraform init.
TfInit(j) ==
    /\ job[j].pc = "init"
    /\ \/ /\ DirExists(j)
          /\ \E ret \in ExitCodes, secs \in StepSeconds :
               /\ SetJob(j, AfterInit(Ran(PipelineEntry(job[j]), "init", ret, secs), ret))
               /\ workspace' = [workspace EXCEPT ![job[j].device_id] =
                                  IF ret = 0 THEN Some(@[1] \cup {".terraform"}) ELSE @]
          /\ UNCHANGED faults
       \/ /\ ~DirExists(j) \/ CanFault
          /\ SetJob(j, Throw(Crashed(PipelineEntry(job[j]), "init"), "pipeline", OsError))
          /\ faults' = IF DirExists(j) THEN faults + 1 ELSE faults
          /\ UNCHANGED workspace
    /\ NoTick
    /\ UNCHANGED <<logs, resources, nextLogId, nextResId, cache, calls>>

\* run_terraform_commands: terraform apply.
TfApply(j) ==
    /\ job[j].pc = "apply"
    /\ \/ /\ DirExists(j)
          /\ \E ret \in ExitCodes, secs \in StepSeconds :
               SetJob(j, AfterApply(Ran(job[j], "apply", ret, secs), ret))
          /\ UNCHANGED faults
       \/ /\ ~DirExists(j) \/ CanFault
          /\ SetJob(j, Throw(Crashed(job[j], "apply"), "pipeline", OsError))
          /\ faults' = IF DirExists(j) THEN faults + 1 ELSE faults
    /\ NoTick
    /\ UNCHANGED <<logs, resources, nextLogId, nextResId, cache, workspace, calls>>

\* run_terraform_commands: best-effort terraform output, inside try/except.
TfOutput(j) ==
    /\ job[j].pc = "output"
    /\ \/ /\ DirExists(j)
          /\ \E ret \in ExitCodes, secs \in StepSeconds :
               SetJob(j, AfterOutput(Ran(job[j], "output", ret, secs)))
          /\ UNCHANGED faults
       \/ /\ ~DirExists(j) \/ CanFault
          /\ SetJob(j, AfterOutput(Crashed(job[j], "output")))
          /\ faults' = IF DirExists(j) THEN faults + 1 ELSE faults
    /\ NoTick
    /\ UNCHANGED <<logs, resources, nextLogId, nextResId, cache, workspace, calls>>

\* destroy_terraform_resources: the single terraform destroy step.
TfDestroy(j) ==
    /\ job[j].pc = "destroy"
    /\ \/ /\ DirExists(j)
          /\ \E ret \in ExitCodes, secs \in StepSeconds :
               SetJob(j, AfterDestroy(Ran(PipelineEntry(job[j]), "destroy", ret, secs), ret))
          /\ UNCHANGED faults
       \/ /\ ~DirExists(j) \/ CanFault
          /\ SetJob(j, Throw(Crashed(PipelineEntry(job[j]), "destroy"), "pipeline", OsError))
          /\ faults' = IF DirExists(j) THEN faults + 1 ELSE faults
    /\ NoTick
    /\ UNCHANGED <<logs, resources, nextLogId, nextResId, cache, workspace, calls>>

\* create flow, step 4: log_resource, then the return of the JobResult.
Resource(j) ==
    /\ job[j].pc = "resource"
    /\ \/ /\ ParentExists(logs, job[j].log_id)
          /\ resources' = InsertResource(resources, nextResId, job[j].log_id, "EC2",
                                         job[j].instance_name, job[j].device_id, clock)
          /\ nextResId' = nextResId + 1
          /\ SetJob(j, Return([job[j] EXCEPT !.inserted = @ + 1],
                              JobResult(job[j].pipe[1].success, job[j].pipe[1].output,
                                        job[j].pipe[1].duration)))
          /\ UNCHANGED faults
       \/ /\ ~ParentExists(logs, job[j].log_id) \/ CanFault
          /\ SetJob(j, Throw(job[j], "resource",
                             IF ParentExists(logs, job[j].log_id)
                             THEN CHOOSE e \in DbErrors : e.type = "DBAPIError"
                             ELSE IntegrityError))
          /\ faults' = IF ParentExists(logs, job[j].log_id) THEN faults + 1 ELSE faults
          /\ UNCHANGED <<resources, nextResId>>
    /\ NoTick
    /\ UNCHANGED <<logs, nextLogId, cache, workspace, calls>>

\* The sync adapter's `except RuntimeError`: run the flow again on a new loop.
RunsAgain(r) == r.exc[1].type = "RuntimeError" /\ r.attempt = 1

Adapter(j) ==
    /\ job[j].pc = "escaped"
    /\ SetJob(j, IF RunsAgain(job[j])
                 THEN FlowEntry([job[j] EXCEPT !.attempt = 2])
                 ELSE [job[j] EXCEPT !.pc = "raised"])
    /\ NoTick
    /\ UNCHANGED <<logs, resources, nextLogId, nextResId, cache, workspace, faults, calls>>

Step(j) ==
    \/ Start(j)
    \/ LRSelect(j)
    \/ LRWrite(j)
    \/ LRCache(j)
    \/ Build(j)
    \/ TfInit(j)
    \/ TfApply(j)
    \/ TfOutput(j)
    \/ TfDestroy(j)
    \/ Resource(j)
    \/ Adapter(j)

Next == \E j \in Jobs : Step(j)

Spec == Init /\ [][Next]_vars

\* ------------------------------------------------ the store API, called alone
\* One client calls the store's functions one after the other; each call runs to
\* completion, and the clock advances between calls.
RequestIds == {7, 9}

StoreArgs ==
    {WriteArgs(st, None, None) : st \in {"create_started", "failed"}}
    \cup {WriteArgs(st, Some(2), Some(<<"log">>)) : st \in {"create_started", "failed"}}

LogRequestCall(request_id, user_id, w, ret, raised, cached) ==
    [op |-> "log_request", request_id |-> request_id, user_id |-> user_id, w |-> w,
     ret |-> ret, raised |-> raised, cached |-> cached, at |-> clock]

\* Mutant of LogRequestEffect: a failing cache write is not swallowed.
LogRequestEffectCacheRaises(db_ok, cache_ok) ==
    [commit |-> db_ok, mirror |-> db_ok /\ cache_ok, raise |-> ~db_ok \/ ~cache_ok]

\* What one log_request call does, given whether its transaction and its cache
\* write go through: the cache is written after the commit, inside try/except.
LogRequestEffect(db_ok, cache_ok) ==
    [commit |-> db_ok, mirror |-> db_ok /\ cache_ok, raise |-> ~db_ok]

\* log_request, from the SELECT to the return, on arguments of the given sets.
LogRequestApi(ids, users, args) ==
    /\ Len(calls) < MaxCalls
    /\ \E request_id \in ids, user_id \in users, w \in args,
          db_ok \in BOOLEAN, cache_ok \in BOOLEAN :
        \E sel \in ScalarResults(logs, request_id) :
         LET eff == LogRequestEffect(db_ok, cache_ok)
             u == Upsert(logs, nextLogId, sel, request_id, user_id, w, clock)
             failures == IF db_ok /\ cache_ok THEN 0 ELSE 1
         IN  /\ db_ok \/ cache_ok
             /\ faults + failures <= MaxFaults
             /\ faults' = faults + failures
             /\ logs' = IF eff.commit THEN u.logs ELSE logs
             /\ nextLogId' = IF eff.commit THEN u.next ELSE nextLogId
             /\ cache' = IF eff.mirror
                         THEN cache_set(cache, IntToStr(request_id), w.status)
                         ELSE cache
             /\ calls' = Append(calls,
                                LogRequestCall(request_id, user_id, w,
                                               IF eff.raise THEN None ELSE u.log_id,
                                               eff.raise, eff.mirror))
    /\ Tick
    /\ UNCHANGED <<resources, nextResId, workspace, job>>

StoreLogRequest == LogRequestApi(RequestIds, Users, StoreArgs)

NextStore == StoreLogRequest

SpecStore == Init /\ [][NextStore]_vars

\* ------------------------------------------------ the cache mirror, called alone
CacheArgs ==
    {WriteArgs("create_started", None, None), WriteArgs("failed", Some(2), Some(<<"log">>))}

CacheLogRequest == LogRequestApi(RequestIds, {"alice"}, CacheArgs)

\* get_cached_job_status: redis GET inside try/except, None when it fails.
StoreGetCached ==
    /\ Len(calls) < MaxCalls
    /\ \E request_id \in RequestIds, redis_ok \in BOOLEAN :
          /\ redis_ok \/ CanFault
          /\ faults' = IF redis_ok THEN faults ELSE faults + 1
          /\ calls' = Append(calls,
                             [op |-> "get_cached_job_status",
                              job_id |-> IntToStr(request_id),
                              ret |-> IF redis_ok
                                      THEN get_cached(cache, IntToStr(request_id))
                                      ELSE None,
                              raised |-> FALSE, failed |-> ~redis_ok, at |-> clock])
    /\ Tick
    /\ UNCHANGED <<logs, resources, nextLogId, nextResId, cache, workspace, job>>

NextCache == CacheLogRequest \/ StoreGetCached

SpecCache == Init /\ [][NextCache]_vars

\* ------------------------------------------ the record tree, called alone
\* Mutant of DeleteTree: the child delete has lost its WHERE clause.
DeleteTreeAllChildren(L, R, request_id) ==
    [logs |-> L \ RowsOf(L, request_id), resources |-> {}]

\* delete_resources_by_request_id: the children of the matching rows, then the
\* rows; ON DELETE CASCADE removes whatever still refers to a deleted row.
DeleteTree(L, R, request_id) ==
    LET parents == {r.log_id : r \in RowsOf(L, request_id)}
        children == {x \in R : x.log_id \in parents}
        kept == L \ RowsOf(L, request_id)
    IN  [logs |-> kept,
         resources |-> {x \in R \ children : \E r \in kept : r.log_id = x.log_id}]

\* The store after a successful create of device "9" by bob.
InitTree ==
    /\ logs = InsertRow({}, 1, 9, "bob", WriteArgs("success", Some(2), None), 0)
    /\ resources = InsertResource({}, 1, Some(1), "EC2", "web1", <<"9">>, 0)
    /\ nextLogId = 2
    /\ nextResId = 2
    /\ cache = cache_set(<<>>, IntToStr(9), "success")
    /\ workspace = [d \in DeviceIds |-> None]
    /\ clock = 1
    /\ faults = 0
    /\ job = [j \in Jobs |-> IdleJob]
    /\ calls = <<>>

TreeLogRequest ==
    LogRequestApi(RequestIds, {"alice"}, {WriteArgs("create_started", None, None)})

\* log_resource: one INSERT in one transaction; the foreign key needs the parent.
StoreLogResource ==
    /\ Len(calls) < MaxCalls
    /\ \E log_id \in 1..nextLogId, db_ok \in BOOLEAN :
          LET ok == db_ok /\ ParentExists(logs, Some(log_id))
          IN  /\ db_ok \/ CanFault
              /\ faults' = IF db_ok THEN faults ELSE faults + 1
              /\ resources' = IF ok
                              THEN InsertResource(resources, nextResId, Some(log_id),
                                                  "EC2", "web1", <<"7">>, clock)
                              ELSE resources
              /\ nextResId' = IF ok THEN nextResId + 1 ELSE nextResId
              /\ calls' = Append(calls, [op |-> "log_resource", log_id |-> log_id,
                                         raised |-> ~ok, at |-> clock])
    /\ Tick
    /\ UNCHANGED <<logs, nextLogId, cache, workspace, job>>

\* delete_resources_by_request_id: both DELETEs in one transaction.
StoreDelete ==
    /\ Len(calls) < MaxCalls
    /\ \E request_id \in RequestIds, db_ok \in BOOLEAN :
          LET t == DeleteTree(logs, resources, request_id)
          IN  /\ db_ok \/ CanFault
              /\ faults' = IF db_ok THEN faults ELSE faults + 1
              /\ logs' = IF db_ok THEN t.logs ELSE logs
              /\ resources' = IF db_ok THEN t.resources ELSE resources
              /\ calls' = Append(calls, [op |-> "delete_resources_by_request_id",
                                         request_id |-> request_id,
                                         raised |-> ~db_ok, at |-> clock])
    /\ Tick
    /\ UNCHANGED <<nextLogId, nextResId, cache, workspace, job>>

NextTree == TreeLogRequest \/ StoreLogResource \/ StoreDelete

SpecTree == InitTree /\ [][NextTree]_vars

\* ------------------------------------------- normalize_request_id, called alone
\* Workers normalize device ids: each call runs in the process of one worker.
NormChars == {"-", "7", "w"}

NormInputs == UNION {[1..n -> NormChars] : n \in 0..MaxDeviceLen}

\* hash(s) in the process of worker j, for a string int() rejects.
HashOf(j, s) == ProcessHash(j) + Len(s) - 1

NormalizeCall ==
    /\ Len(calls) < MaxNormCalls
    /\ \E j \in Jobs, d \in NormInputs :
          calls' = Append(calls, [op |-> "normalize_request_id", worker |-> j,
                                  device_id |-> d,
                                  ret |-> normalize_request_id(d, HashOf(j, d))])
    /\ UNCHANGED <<logs, resources, nextLogId, nextResId, cache, workspace, clock,
                   faults, job>>

NextNormalize == NormalizeCall

SpecNormalize == Init /\ [][NextNormalize]_vars

\* ---------------------------------------------------------------- claims
\* The trace fields of job[j] describe the current flow invocation of call j.
Returned(j) == job[j].pc = "done"
FlowRaised(j) == job[j].pc \in {"escaped", "raised"}
Ended(j) == Returned(j) \/ FlowRaised(j)
IsCreate(j) == job[j].pc # "idle" /\ job[j].kind = "create"
IsDestroy(j) == job[j].pc # "idle" /\ job[j].kind = "destroy"
PipeReturned(j) == job[j].pipe # None
PipeSuccess(j) == PipeReturned(j) /\ job[j].pipe[1].success
CaughtAt(j, where) == \E i \in 1..Len(job[j].caught) : job[j].caught[i].where = where
PipelineStatuses == {"success", "failed", "destroyed", "destroy_failed"}
FinalStatuses == PipelineStatuses \cup {"error", "destroy_error"}
Last(seq) == seq[Len(seq)]

\* C1: in every reachable state, also under concurrent jobs on one device id,
\* request_status_logs holds at most one row per request_id.
C1_OneRecordPerRequestId ==
    \A r1 \in logs, r2 \in logs : r1.request_id = r2.request_id => r1.log_id = r2.log_id

\* C3 as stated: a create invocation that has ended inserted a ResourceRecord
\* if and only if its pipeline reported success, whatever the store writes did.
C3_ResourceIffPipelineSuccess ==
    \A j \in Jobs : IsCreate(j) /\ Ended(j) => (job[j].inserted = 1 <=> PipeSuccess(j))

\* C3 amended: a create invocation inserts at most one ResourceRecord and only
\* after its pipeline reported success; once it has ended, it has inserted one
\* exactly when the pipeline succeeded and neither the terminal-status write nor
\* the insert raised.
C3_ResourceOnlyAfterSuccess ==
    \A j \in Jobs :
        /\ job[j].inserted \in {0, 1}
        /\ job[j].inserted = 1 => IsCreate(j) /\ PipeSuccess(j)
        /\ IsCreate(j) /\ Ended(j) =>
              (job[j].inserted = 1 <=>
                  PipeSuccess(j) /\ ~CaughtAt(j, "terminal") /\ ~CaughtAt(j, "resource"))

C3_Witness ==
    \E j \in Jobs : IsCreate(j) /\ Returned(j) /\ PipeSuccess(j) /\ job[j].inserted = 1
                    /\ \E x \in resources : x.resource_id_value = job[j].device_id

\* C4 as stated: an exception raised in the try block of a flow ends in a
\* committed write of error / destroy_error whose error_message is the
\* exception's message, and in a returned JobResult with success false, duration 0.
C4_ExceptionBecomesErrorResult ==
    \A j \in Jobs : job[j].caught # <<>> /\ Ended(j) =>
        /\ Returned(j)
        /\ job[j].result[1].success = FALSE
        /\ job[j].result[1].duration = 0
        /\ Last(job[j].wrote).status = ErrorStatus(job[j].kind)
        /\ Last(job[j].wrote).error = Some(job[j].caught[1].msg)

\* C4 amended: an exception raised in the try block (workspace build, a pipeline
\* step other than the best-effort output step, the terminal-status write, the
\* resource insert) never leaves the flow; the handler attempts one write of
\* error / destroy_error with the prefixed text "Unhandled error: <message>" /
\* "Destroy crashed: <message>"; when that write commits the flow returns
\* JobResult(false, that text, 0), and when it raises the flow raises.
C4_HandlerConvertsException ==
    \A j \in Jobs :
        /\ FlowRaised(j) => job[j].escapedAt \in {"started", "error"}
        /\ job[j].caught # <<>> =>
              LET text == (IF job[j].kind = "create" THEN <<"Unhandled error: ">>
                           ELSE <<"Destroy crashed: ">>) \o job[j].caught[1].msg
                  st == IF job[j].kind = "create" THEN "error" ELSE "destroy_error"
              IN  /\ Len(job[j].caught) = 1
                  /\ Last(job[j].tried) = st
                  /\ Returned(j) =>
                        /\ job[j].result = Some([success |-> FALSE, output |-> text,
                                                 duration |-> 0])
                        /\ Last(job[j].wrote) =
                              [status |-> st, duration |-> None, error |-> Some(text)]
                  /\ FlowRaised(j) =>
                        /\ job[j].escapedAt = "error"
                        /\ job[j].result = None
                        /\ \A i \in 1..Len(job[j].wrote) : job[j].wrote[i].status # st

C4_Witness ==
    /\ \E j \in Jobs : IsCreate(j) /\ Returned(j) /\ CaughtAt(j, "resource")
                       /\ job[j].result[1].duration = 0
    /\ \E j \in Jobs : IsDestroy(j) /\ Returned(j) /\ CaughtAt(j, "pipeline")
                       /\ Last(job[j].wrote).status = "destroy_error"

\* C5: once an invocation has committed a final status (any status but the
\* started one) it commits no further status.
C5_FinalStatusIsLast ==
    \A j \in Jobs : \A i \in 1..Len(job[j].wrote) :
        job[j].wrote[i].status \in FinalStatuses => i = Len(job[j].wrote)

\* C6: within one invocation the started status is committed before the
\* workspace build or any pipeline step, it is the first and only started write,
\* a pipeline-derived final status is committed only after the decisive step has
\* finished, and with no other call on the request_id the one row of that
\* request_id holds the last status the invocation committed.
DecisiveStepDone(j) ==
    \E i \in 1..Len(job[j].steps) :
        LET st == job[j].steps[i]
        IN  \/ job[j].kind = "create" /\ st.cmd = "init" /\ st.ret > 0
            \/ job[j].kind = "create" /\ st.cmd = "apply" /\ st.ret >= 0
            \/ job[j].kind = "destroy" /\ st.cmd = "destroy" /\ st.ret >= 0

Alone(j) ==
    \A k \in Jobs \ {j} : job[k].pc = "idle" \/ job[k].request_id # job[j].request_id

C6_WritesInProgramOrder ==
    \A j \in Jobs :
        LET w == job[j].wrote
            started == IF job[j].kind = "create" THEN "create_started" ELSE "destroy_started"
        IN  /\ job[j].built \/ job[j].steps # <<>> => w # <<>> /\ w[1].status = started
            /\ \A i \in 1..Len(w) :
                  /\ w[i].status \in {"create_started", "destroy_started"} <=> i = 1
                  /\ i = 1 => w[i].status = started
                  /\ w[i].status \in PipelineStatuses => DecisiveStepDone(j)
            /\ Alone(j) /\ w # <<>> =>
                  /\ Cardinality(RowsOf(logs, job[j].request_id)) = 1
                  /\ \A row \in RowsOf(logs, job[j].request_id) :
                        /\ row.status = Last(w).status
                        /\ row.duration_seconds = Last(w).duration
                        /\ row.error_message = Last(w).error

C6_Witness ==
    \E j \in Jobs : /\ Alone(j) /\ Returned(j) /\ Len(job[j].wrote) = 2
                    /\ job[j].wrote[1].status = "create_started"
                    /\ job[j].wrote[2].status = "failed"
                    /\ \E row \in logs : row.request_id = job[j].request_id
                                         /\ row.status = "failed"

\* C7: an exception of the initial started write is never handled by the flow:
\* the invocation ends by raising, having committed no status, attempted no
\* other write, built no workspace, run no step, inserted no resource and
\* returned no JobResult.
C7_StartedWriteFailureEscapes ==
    \A j \in Jobs :
        /\ ~CaughtAt(j, "started")
        /\ job[j].pc # "idle" /\ job[j].wrote = <<>> =>
              /\ job[j].site = "started"
              /\ job[j].pc \in {"select", "write", "escaped", "raised"}
        /\ FlowRaised(j) /\ job[j].escapedAt = "started" =>
              /\ job[j].wrote = <<>>
              /\ Len(job[j].tried) = 1
              /\ job[j].steps = <<>>
              /\ ~job[j].built
              /\ job[j].inserted = 0
              /\ job[j].pipe = None
              /\ job[j].result = None

C7_Witness ==
    \E j \in Jobs : /\ job[j].pc = "raised" /\ job[j].escapedAt = "started"
                    /\ RowsOf(logs, job[j].request_id) = {}

\* C8 as stated: when the terminal-status write of a flow has failed, the flow
\* has raised and has attempted no further status write.
TerminalWriteFailed(j) ==
    \E i \in 1..Len(job[j].tried) :
        /\ job[j].tried[i] \in PipelineStatuses
        /\ \A k \in 1..Len(job[j].wrote) : job[j].wrote[k].status # job[j].tried[i]
        /\ ~(job[j].site = "terminal" /\ job[j].pc \in {"select", "write"})

C8_TerminalWriteFailureEscapes ==
    \A j \in Jobs : TerminalWriteFailed(j) =>
        FlowRaised(j) /\ Last(job[j].tried) \in PipelineStatuses

\* C8 amended: a failure of the terminal-status write never leaves the flow; the
\* handler catches it and attempts exactly one further write, of error /
\* destroy_error; the flow then returns JobResult(false, ..., 0), or raises when
\* that error write fails too.
C8_TerminalWriteFailureIsHandled ==
    \A j \in Jobs :
        /\ FlowRaised(j) => job[j].escapedAt # "terminal"
        /\ TerminalWriteFailed(j) =>
              /\ Len(job[j].tried) = 3
              /\ job[j].tried[3] = (IF job[j].kind = "create" THEN "error" ELSE "destroy_error")
              /\ Returned(j) => /\ job[j].result[1].success = FALSE
                                /\ job[j].result[1].duration = 0
                                /\ Last(job[j].wrote).status = job[j].tried[3]
              /\ FlowRaised(j) => job[j].escapedAt = "error"

C8_Witness ==
    \E j \in Jobs : /\ TerminalWriteFailed(j) /\ Returned(j)
                    /\ job[j].tried = <<"destroy_started", "destroyed", "destroy_error">>

\* C9: the create pipeline runs init, apply, output in that order, apply only
\* after init exited 0 and output only after apply exited 0; a nonzero exit of
\* init or apply ends the pipeline with failure and no further step.
C9_PipelineShortCircuit ==
    \A j \in Jobs :
        LET s == job[j].steps
        IN  /\ \A i \in 1..Len(s) :
                  /\ s[i].cmd = "init" => i = 1 /\ job[j].kind = "create"
                  /\ s[i].cmd = "apply" => i = 2 /\ s[1].cmd = "init" /\ s[1].ret = 0
                  /\ s[i].cmd = "output" => i = 3 /\ s[2].cmd = "apply" /\ s[2].ret = 0
                  /\ s[i].cmd = "destroy" => i = 1 /\ job[j].kind = "destroy"
            /\ \A i \in 1..Len(s) :
                  s[i].cmd \in {"init", "apply"} /\ s[i].ret > 0 =>
                      /\ Len(s) = i
                      /\ PipeReturned(j)
                      /\ ~PipeSuccess(j)

C9_Witness ==
    /\ \E j \in Jobs : /\ job[j].steps = <<[cmd |-> "init", ret |-> 1, secs |-> 1]>>
                       /\ Returned(j) /\ ~PipeSuccess(j)
    /\ \E j \in Jobs : /\ Len(job[j].steps) = 3 /\ job[j].steps[3].cmd = "output"
                       /\ PipeSuccess(j)

\* C10: what the create pipeline returned, recomputed from the steps it ran.
RECURSIVE StepTexts(_)
StepTexts(s) ==
    IF s = <<>> THEN <<>>
    ELSE (IF s[1].ret >= 0 THEN << <<[stdout |-> s[1].cmd]>>, <<[stderr |-> s[1].cmd]>> >>
          ELSE <<>>) \o StepTexts(Tail(s))

RECURSIVE TimedSeconds(_)
TimedSeconds(s) ==
    IF s = <<>> THEN 0
    ELSE (IF s[1].cmd # "output" THEN s[1].secs ELSE 0) + TimedSeconds(Tail(s))

ExpectedPipe(j) ==
    [success |-> /\ Len(job[j].steps) >= 2
                 /\ job[j].steps[1].ret = 0
                 /\ job[j].steps[2].ret = 0,
     output |-> Join(StepTexts(job[j].steps)),
     duration |-> TimedSeconds(job[j].steps)]

\* C10 as stated: a create invocation whose pipeline returned ends by returning
\* the JobResult made of the pipeline's result, with the terminal status
\* success / failed committed.
C10_ResultFromPipeline ==
    \A j \in Jobs : IsCreate(j) /\ PipeReturned(j) /\ Ended(j) =>
        /\ Returned(j)
        /\ job[j].result = Some(ExpectedPipe(j))
        /\ \E i \in 1..Len(job[j].wrote) :
              job[j].wrote[i].status = (IF ExpectedPipe(j).success THEN "success" ELSE "failed")

\* C10 amended: when the create pipeline returns, the terminal write is issued
\* with status success / failed, the pipeline's duration, and the combined log
\* as error_message on failure, null on success; a failed pipeline inserts no
\* ResourceRecord; the flow returns JobResult(success, combined log, duration) of
\* the pipeline provided the terminal write and the resource insert do not
\* raise, and JobResult with success false and duration 0 otherwise.
C10_TerminalWriteFromPipeline ==
    \A j \in Jobs : IsCreate(j) /\ PipeReturned(j) =>
        /\ job[j].pipe = Some(ExpectedPipe(j))
        /\ LET e == job[j].pipe[1]
               st == IF e.success THEN "success" ELSE "failed"
               args == [status |-> st, duration |-> Some(e.duration),
                        error |-> IF e.success THEN None ELSE Some(e.output)]
           IN  /\ Len(job[j].tried) >= 2 /\ job[j].tried[2] = st
               /\ job[j].site = "terminal" => job[j].w = args
               /\ \A i \in 1..Len(job[j].wrote) :
                     job[j].wrote[i].status \in PipelineStatuses => job[j].wrote[i] = args
               /\ ~e.success => job[j].inserted = 0
               /\ Returned(j) /\ job[j].caught = <<>> => job[j].result = Some(e)
               /\ Returned(j) /\ job[j].caught # <<>> =>
                     job[j].result[1].success = FALSE /\ job[j].result[1].duration = 0

C10_Witness ==
    /\ \E j \in Jobs : /\ IsCreate(j) /\ Returned(j) /\ job[j].caught = <<>>
                       /\ ~PipeSuccess(j) /\ job[j].inserted = 0
                       /\ Last(job[j].wrote).status = "failed"
                       /\ Last(job[j].wrote).error = Some(job[j].result[1].output)
                       /\ job[j].result[1].duration = 2
    /\ \E j \in Jobs : /\ IsCreate(j) /\ Returned(j) /\ job[j].caught = <<>>
                       /\ PipeSuccess(j) /\ job[j].result[1].success
                       /\ Last(job[j].wrote).error = None

\* C2: two log_request calls in sequence with one request_id, both returning:
\* there is exactly one row of that request_id, the second call returned the key
\* the first returned, and the row holds the second call's status,
\* duration_seconds and error_message (null when the call gave none) and the
\* second call's time as updated_at.
TwoCallsInSequence ==
    /\ Len(calls) >= 2
    /\ ~calls[Len(calls)].raised
    /\ ~calls[Len(calls) - 1].raised
    /\ calls[Len(calls)].request_id = calls[Len(calls) - 1].request_id

C2_SecondCallUpdatesInPlace ==
    TwoCallsInSequence =>
        LET first == calls[Len(calls) - 1]
            second == calls[Len(calls)]
        IN  /\ Cardinality({r \in logs : r.request_id = second.request_id}) = 1
            /\ second.ret = first.ret
            /\ \A r \in logs : r.request_id = second.request_id =>
                  /\ Some(r.log_id) = second.ret
                  /\ r.status = second.w.status
                  /\ r.duration_seconds = second.w.duration
                  /\ r.error_message = second.w.error
                  /\ r.updated_at = second.at

C2_Witness ==
    /\ TwoCallsInSequence
    /\ calls[Len(calls) - 1].w.duration # None
    /\ calls[Len(calls) - 1].w.error # None
    /\ calls[Len(calls)].w = [status |-> "create_started", duration |-> None, error |-> None]
    /\ calls[Len(calls) - 1].w.status = "failed"
    /\ \E r \in logs : /\ r.request_id = calls[Len(calls)].request_id
                       /\ r.status = "create_started"
                       /\ r.duration_seconds = None /\ r.error_message = None
                       /\ r.updated_at > r.created_at

\* C11 as stated: a destroy invocation whose destroy step ran to completion ends
\* by returning a JobResult whose success tells whether the step exited 0, with
\* the terminal status destroyed / destroy_failed committed.
C11_DestroyResultFromStep ==
    \A j \in Jobs : IsDestroy(j) /\ Ended(j) /\ PipeReturned(j) =>
        /\ Returned(j)
        /\ job[j].result[1].success = (job[j].steps[1].ret = 0)
        /\ \E i \in 1..Len(job[j].wrote) :
              job[j].wrote[i].status =
                  (IF job[j].steps[1].ret = 0 THEN "destroyed" ELSE "destroy_failed")

\* C11 amended: the destroy pipeline runs exactly one external step; when the
\* step has run to completion the terminal write is issued with status
\* destroyed (exit 0, null error_message) or destroy_failed (nonzero exit, the
\* combined log as error_message) and the step's duration; the flow returns
\* JobResult(success, combined log, duration) of the pipeline provided the
\* terminal write does not raise, and a JobResult with success false and
\* duration 0 otherwise.
C11_DestroyTerminalWriteFromStep ==
    \A j \in Jobs : IsDestroy(j) =>
        /\ Len(job[j].steps) <= 1
        /\ \A i \in 1..Len(job[j].steps) : job[j].steps[i].cmd = "destroy"
        /\ PipeReturned(j) <=> (job[j].steps # <<>> /\ job[j].steps[1].ret >= 0)
        /\ PipeReturned(j) =>
              LET ok == job[j].steps[1].ret = 0
                  log == Join(<<StdOut("destroy"), StdErr("destroy")>>)
                  st == IF ok THEN "destroyed" ELSE "destroy_failed"
                  args == [status |-> st, duration |-> Some(job[j].steps[1].secs),
                           error |-> IF ok THEN None ELSE Some(log)]
              IN  /\ job[j].pipe[1] = [success |-> ok, output |-> log,
                                       duration |-> job[j].steps[1].secs]
                  /\ Len(job[j].tried) >= 2 /\ job[j].tried[2] = st
                  /\ job[j].site = "terminal" => job[j].w = args
                  /\ \A i \in 1..Len(job[j].wrote) :
                        job[j].wrote[i].status \in {"destroyed", "destroy_failed"} =>
                            job[j].wrote[i] = args
                  /\ Returned(j) /\ job[j].caught = <<>> =>
                        job[j].result = Some(job[j].pipe[1])
                  /\ Returned(j) /\ job[j].caught # <<>> =>
                        job[j].result[1].success = FALSE /\ job[j].result[1].duration = 0

C11_Witness ==
    \E j \in Jobs : /\ IsDestroy(j) /\ Returned(j) /\ job[j].caught = <<>>
                    /\ job[j].steps = <<[cmd |-> "destroy", ret |-> 1, secs |-> 1]>>
                    /\ job[j].result[1].success = FALSE
                    /\ Last(job[j].wrote).status = "destroy_failed"
                    /\ Last(job[j].wrote).error = Some(job[j].result[1].output)
                    /\ \E row \in logs : row.status = "destroy_failed"

\* C12: no step of a destroy invocation changes the set of ResourceRecords,
\* whatever the invocation's outcome.  (The only writer of request_resources in
\* the flows is the create flow's log_resource, which inserts.)
StepOf(j) == job'[j] # job[j]

C12_DestroyLeavesResources ==
    [][resources' # resources =>
          \E j \in Jobs : /\ StepOf(j)
                          /\ job[j].kind = "create" /\ job[j].pc = "resource"
                          /\ \A k \in Jobs : StepOf(k) => job'[k].kind = "create"
                          /\ resources \subseteq resources']_vars

C12_Witness ==
    /\ resources # {}
    /\ \E j \in Jobs : /\ IsDestroy(j) /\ Returned(j)
                       /\ Last(job[j].wrote).status = "destroyed"
                       /\ job[j].inserted = 0
                       /\ \E x \in resources : x.resource_id_value = job[j].device_id

\* C13: a create invocation that returned after a successful pipeline with no
\* store write raising inserted exactly one ResourceRecord; a record with
\* resource_type "EC2", the instance name, the raw device id and, as parent key,
\* the key the started write returned exists, and that key is the key of a
\* RequestRecord whose request_id is normalize(device_id); when it is the only
\* invocation on a store that was empty, the store then holds exactly one
\* ResourceRecord and one RequestRecord, of status "success".
HappyCreate(j) ==
    IsCreate(j) /\ Returned(j) /\ PipeSuccess(j) /\ job[j].caught = <<>>

C13_OneResourceOnSuccess ==
    \A j \in Jobs : HappyCreate(j) =>
        /\ job[j].inserted = 1
        /\ job[j].request_id = normalize_request_id(job[j].device_id, job[j].hash)
        /\ job[j].log_id # None
        /\ \E x \in resources :
              /\ x.log_id = job[j].log_id[1]
              /\ x.resource_type = "EC2"
              /\ x.resource_name = job[j].instance_name
              /\ x.resource_id_value = job[j].device_id
              /\ \E row \in logs : /\ row.log_id = x.log_id
                                   /\ row.request_id = job[j].request_id
        /\ (\A k \in Jobs \ {j} : job[k].pc = "idle") /\ job[j].attempt = 1 =>
              /\ Cardinality(resources) = 1
              /\ Cardinality(logs) = 1
              /\ \A row \in logs : row.status = "success"

C13_Witness ==
    \E j \in Jobs : /\ HappyCreate(j)
                    /\ \A k \in Jobs \ {j} : job[k].pc = "idle"
                    /\ job[j].device_id = <<"7">>
                    /\ Cardinality(resources) = 1
                    /\ \E x \in resources : x.resource_id_value = <<"7">> /\ x.log_id = 1
                    /\ \E row \in logs : row.request_id = 7 /\ row.status = "success"

\* C14: for a device id that int() rejects, normalize_request_id returns the
\* same request id on every call, in one worker process and in two, and the
\* result lies in [0, 10^8).
C14_NormalizeDeterministic ==
    \A a \in 1..Len(calls), b \in 1..Len(calls) :
        /\ calls[a].op = "normalize_request_id" /\ calls[b].op = "normalize_request_id"
        /\ ~ParsesAsInt(calls[a].device_id)
        /\ calls[a].device_id = calls[b].device_id
        => /\ calls[a].ret = calls[b].ret
           /\ calls[a].ret >= 0 /\ calls[a].ret < HashModulus

\* C15: for a device id that parses as an integer, normalize_request_id returns
\* int(device_id), and the request id is nonnegative.
C15_NumericIdIsItsValue ==
    \A a \in 1..Len(calls) :
        calls[a].op = "normalize_request_id" /\ ParsesAsInt(calls[a].device_id) =>
            /\ calls[a].ret = IntOf(calls[a].device_id)
            /\ calls[a].ret >= 0

\* C16: a log_request whose cache write fails still returns the record key and
\* leaves the durable record exactly as a call whose cache write succeeds; the
\* cache changes only in a call whose transaction committed, so a failed durable
\* write leaves it unchanged; a failing cache read returns None, never raises.
Called == Len(calls') = Len(calls) + 1

C16_CacheNeverAffectsStore ==
    [][Called =>
          LET c == calls'[Len(calls')]
          IN  /\ c.op = "log_request" =>
                    /\ c.raised => logs' = logs /\ cache' = cache /\ c.ret = None
                    /\ ~c.raised =>
                          /\ c.ret # None
                          /\ \E sel \in ScalarResults(logs, c.request_id) :
                                logs' = Upsert(logs, nextLogId, sel, c.request_id,
                                               c.user_id, c.w, clock).logs
                          /\ \E row \in logs' :
                                /\ Some(row.log_id) = c.ret
                                /\ row.request_id = c.request_id
                                /\ row.status = c.w.status
                    /\ ~c.cached => cache' = cache
                    /\ c.cached =>
                          /\ ~c.raised
                          /\ get_cached(cache', IntToStr(c.request_id)) = Some(c.w.status)
              /\ c.op = "get_cached_job_status" =>
                    /\ ~c.raised
                    /\ c.failed => c.ret = None
                    /\ ~c.failed => c.ret = get_cached(cache, c.job_id)
                    /\ logs' = logs /\ cache' = cache]_vars

C16_Witness ==
    /\ Len(calls) >= 2
    /\ calls[Len(calls) - 1].op = "log_request"
    /\ ~calls[Len(calls) - 1].raised /\ ~calls[Len(calls) - 1].cached
    /\ calls[Len(calls) - 1].ret # None
    /\ calls[Len(calls) - 1].w.status = "failed"
    /\ \E row \in logs : /\ Some(row.log_id) = calls[Len(calls) - 1].ret
                         /\ row.status = "failed"
    /\ calls[Len(calls)].op = "get_cached_job_status"
    /\ calls[Len(calls)].job_id = IntToStr(calls[Len(calls) - 1].request_id)
    /\ calls[Len(calls)].ret = Some("create_started")

\* C17: a committed delete_resources_by_request_id leaves no RequestRecord of
\* the request_id and no ResourceRecord that had such a parent, and leaves every
\* other RequestRecord and its ResourceRecords as they were; a delete that fails
\* changes nothing (both deletions are one transaction); after every call each
\* ResourceRecord's parent key is the key of an existing RequestRecord.
ForeignKeyHolds(L, R) == \A x \in R : \E r \in L : r.log_id = x.log_id

C17_DeleteRemovesTreeOnly ==
    [][/\ ForeignKeyHolds(logs, resources) => ForeignKeyHolds(logs', resources')
       /\ Called /\ calls'[Len(calls')].op = "delete_resources_by_request_id" =>
             LET c == calls'[Len(calls')]
                 gone == {r \in logs : r.request_id = c.request_id}
             IN  /\ ~c.raised =>
                       /\ logs' = logs \ gone
                       /\ \A r \in logs' : r.request_id # c.request_id
                       /\ resources' =
                             {x \in resources : \A r \in gone : r.log_id # x.log_id}
                 /\ c.raised => logs' = logs /\ resources' = resources]_vars

C17_Witness ==
    /\ ForeignKeyHolds(logs, resources)
    /\ Len(calls) = 3
    /\ calls[1].op = "log_request" /\ calls[1].request_id = 7 /\ ~calls[1].raised
    /\ calls[2].op = "log_resource" /\ ~calls[2].raised /\ Some(calls[2].log_id) = calls[1].ret
    /\ calls[3].op = "delete_resources_by_request_id" /\ ~calls[3].raised
    /\ calls[3].request_id = 7
    /\ Cardinality(logs) = 1 /\ Cardinality(resources) = 1
    /\ \A r \in logs : r.request_id = 9
    /\ \A x \in resources : x.resource_id_value = <<"9">>

\* C18: once init and apply have both exited 0 the create pipeline attempts the
\* output step and then returns success, whether that step exits 0, exits
\* nonzero or raises; the combined log is the init and apply texts followed by
\* the output step's stdout and stderr when it ran to completion and by nothing
\* when it raised; the duration does not include the output step.
OutputAttempted(j) == Len(job[j].steps) = 3 /\ job[j].steps[3].cmd = "output"

C18_OutputStepIsBestEffort ==
    \A j \in Jobs :
        /\ PipeReturned(j) /\ Len(job[j].steps) >= 2
           /\ job[j].steps[1].ret = 0 /\ job[j].steps[2].ret = 0
           => OutputAttempted(j)
        /\ OutputAttempted(j) =>
              /\ PipeReturned(j)
              /\ job[j].pipe[1].success
              /\ job[j].pipe[1].duration = job[j].steps[1].secs + job[j].steps[2].secs
              /\ job[j].pipe[1].output =
                    Join(<<StdOut("init"), StdErr("init"), StdOut("apply"), StdErr("apply")>>
                         \o (IF job[j].steps[3].ret >= 0
                             THEN <<StdOut("output"), StdErr("output")>>
                             ELSE <<>>))

C18_Witness ==
    /\ \E j \in Jobs : /\ OutputAttempted(j) /\ job[j].steps[3].ret = 1
                       /\ Returned(j) /\ job[j].result[1].success
    /\ \E j \in Jobs : /\ OutputAttempted(j) /\ job[j].steps[3].ret = -1
                       /\ Returned(j) /\ job[j].result[1].success
                       /\ Len(job[j].result[1].output) = 7

\* C19: the step in which a workspace build returns leaves exactly the four
\* generated files in the device's directory, whatever it held before; a create
\* invocation runs a pipeline step only after its own build; no step of a
\* destroy invocation changes any workspace.
FourFiles == Some({"main.tf", "variables.tf", "outputs.tf", "provider.tf"})

C20_FlowRunsOncePerCall ==
    \A j \in Jobs : job[j].attempt <= 1

\* C21: a log_request call that finds a RequestRecord of its request_id and
\* returns changes only that record's status, duration_seconds, error_message
\* and updated_at: the record keeps its key, request_id, user_id and created_at,
\* every other RequestRecord and every ResourceRecord is as before, and no
\* record is added.
FoundExisting ==
    /\ Called
    /\ calls'[Len(calls')].op = "log_request"
    /\ ~calls'[Len(calls')].raised
    /\ RowsOf(logs, calls'[Len(calls')].request_id) # {}

C21_UpdateTouchesFourColumns ==
    [][FoundExisting =>
          LET c == calls'[Len(calls')]
          IN  /\ resources' = resources
              /\ Cardinality(logs') = Cardinality(logs)
              /\ \A r \in logs :
                    IF r.request_id # c.request_id THEN r \in logs'
                    ELSE \E n \in logs' :
                            /\ n.log_id = r.log_id /\ Some(n.log_id) = c.ret
                            /\ n.request_id = r.request_id
                            /\ n.user_id = r.user_id
                            /\ n.created_at = r.created_at
                            /\ n.status = c.w.status
                            /\ n.duration_seconds = c.w.duration
                            /\ n.error_message = c.w.error
                            /\ n.updated_at = c.at]_vars

C21_Witness ==
    /\ calls # <<>>
    /\ calls[Len(calls)].op = "log_request" /\ ~calls[Len(calls)].raised
    /\ calls[Len(calls)].request_id = 9 /\ calls[Len(calls)].user_id = "alice"
    /\ \E r \in logs : /\ r.request_id = 9 /\ r.user_id = "bob"
                       /\ r.status = "create_started" /\ r.duration_seconds = None
                       /\ r.created_at = 0 /\ r.updated_at = calls[Len(calls)].at
                       /\ r.updated_at > r.created_at
    /\ \E r \in logs : r.request_id = 7
    /\ \E x \in resources : x.resource_id_value = <<"9">>

\* C22: when every adapter call has finished and none of them met a failing
\* write (no cache write fails in this specification), the value cached under
\* job:<request_id> is the status of the RequestRecord of that request_id, for
\* every request_id that has one record.
Quiescent == \A j \in Jobs : job[j].pc \in {"done", "raised"}

C22_CacheAgreesAtQuiescence ==
    (Quiescent /\ faults = 0) =>
        \A row \in logs :
            Cardinality(RowsOf(logs, row.request_id)) = 1 =>
                get_cached(cache, IntToStr(row.request_id)) = Some(row.status)

\* ------------------------------------ the flows when every store write succeeds
\* The worker runs a started flow to its end: each awaited step terminates and
\* hands control back, and no statement of log_request or log_resource raises.
\* A build or a command that cannot be spawned still raises inside the try.
Progress(j) ==
    \/ LRSelect(j)
    \/ LRWrite(j) /\ faults' = faults
    \/ LRCache(j)
    \/ Build(j)
    \/ TfInit(j)
    \/ TfApply(j)
    \/ TfOutput(j)
    \/ TfDestroy(j)
    \/ Resource(j) /\ faults' = faults

StepLive(j) == Start(j) \/ Progress(j)

NextLive == \E j \in Jobs : StepLive(j)

SpecLive == Init /\ [][NextLive]_vars /\ \A j \in Jobs : WF_vars(Progress(j))

\* C23: with every step terminating and every store write succeeding, a flow
\* that was invoked eventually returns a JobResult; when it has returned, the
\* last status it wrote is not a started status, and the result's success is
\* true exactly when that status is "success" (create) or "destroyed" (destroy).
Invoked(j) == job[j].pc # "idle"

LastWrote(j) == Last(job[j].wrote).status

C23_FlowReturnsWithAgreeingStatus ==
    /\ [](\A j \in Jobs :
            Returned(j) =>
               /\ job[j].wrote # <<>>
               /\ LastWrote(j) \notin {"create_started", "destroy_started"}
               /\ job[j].result[1].success <=>
                     LastWrote(j) = (IF IsCreate(j) THEN "success" ELSE "destroyed"))
    /\ \A j \in Jobs : Invoked(j) ~> Returned(j)

C23_Witness ==
    \E j, k \in Jobs :
        /\ Returned(j) /\ IsCreate(j)
        /\ job[j].result[1].success /\ LastWrote(j) = "success"
        /\ Returned(k) /\ IsDestroy(k)
        /\ ~job[k].result[1].success /\ LastWrote(k) = "destroy_failed"

====
